---- MODULE Spec2Model ----
(***************************************************************************)
(* Blog content sanitization and publication pipeline                      *)
(* (src/src/routes/blog.js).                                               *)
(*                                                                         *)
(* JavaScript strings are modelled as sequences of one-character strings,  *)
(* so that the regular expressions of the source (the YouTube pattern, the *)
(* slug replacements, DOMPurify's URI pattern) are computed character by   *)
(* character.                                                              *)
(***************************************************************************)
EXTENDS Integers, Sequences, FiniteSets, TLC

VARIABLES
    posts,      \* table blog_posts: a function from the ids of the stored rows to the rows
    req,        \* per request slot: the request in flight and the position of its handler
    nextId,     \* number of ids handed out by uuidv4() so far
    clock,      \* the database clock read by NOW()
    event,      \* the response sent by the last step, if that step answered a request
    held,       \* number of pool connections acquired and not yet released
    url,        \* validator development: the candidate embed url
    verdict,    \* validator development: what isValidYouTubeUrl returned for url
    san,        \* sanitizer development: the input document and the passes made over it
    listing,    \* listing development: a table, the listing asked for and the rows returned
    slugged     \* slug development: a title and the slugs computed from it

wfVars == <<posts, req, nextId, clock, event, held>>
pureVars == <<url, verdict, san, listing, slugged>>
vars == <<posts, req, nextId, clock, event, held, url, verdict, san, listing, slugged>>

(***************************************************************************)
(* Characters and string literals                                          *)
(***************************************************************************)
LowerSeq == <<"a", "b", "c", "d", "e", "f", "g", "h", "i", "j", "k", "l", "m",
              "n", "o", "p", "q", "r", "s", "t", "u", "v", "w", "x", "y", "z">>
UpperSeq == <<"A", "B", "C", "D", "E", "F", "G", "H", "I", "J", "K", "L", "M",
              "N", "O", "P", "Q", "R", "S", "T", "U", "V", "W", "X", "Y", "Z">>
DigitSeq == <<"0", "1", "2", "3", "4", "5", "6", "7", "8", "9">>

Range(f) == {f[i] : i \in DOMAIN f}

Lower == Range(LowerSeq)
Upper == Range(UpperSeq)
Digit == Range(DigitSeq)

S_empty == <<>>
S_http == <<"h", "t", "t", "p">>
S_https == <<"h", "t", "t", "p", "s">>
S_s == <<"s">>
S_ftp == <<"f", "t", "p">>
S_javascript == <<"j", "a", "v", "a", "s", "c", "r", "i", "p", "t">>
S_HTTPS == <<"H", "T", "T", "P", "S">>
S_sep == <<":", "/", "/">>
S_www == <<"w", "w", "w", ".">>
S_youtube == <<"y", "o", "u", "t", "u", "b", "e", ".", "c", "o", "m">>
S_YouTube == <<"Y", "o", "u", "T", "u", "b", "e", ".", "c", "o", "m">>
S_lookalike == <<"y", "o", "u", "t", "u", "b", "e", ".", "c", "o", "m", ".",
                 "e", "v", "i", "l", ".", "c", "o", "m">>
S_youtubeXcom == <<"y", "o", "u", "t", "u", "b", "e", "x", "c", "o", "m">>
S_evil == <<"e", "v", "i", "l", ".", "c", "o", "m">>
S_embed == <<"/", "e", "m", "b", "e", "d", "/">>
S_watch == <<"/", "w", "a", "t", "c", "h", "/">>
S_query == <<"?", "x", "=", "1">>
S_dotdot == <<"/", ".", ".", "/", "x">>
S_space == <<" ">>
S_id1 == <<"a">>
S_id2 == <<"A", "_", "-", "9">>

\* s[i..] starts with lit
StartsWithAt(s, i, lit) ==
    /\ i + Len(lit) - 1 <= Len(s)
    /\ \A k \in 1..Len(lit) : s[i + k - 1] = lit[k]

\* lit occurs somewhere in s (String.prototype.includes)
Includes(s, lit) == \E i \in 1..(Len(s) - Len(lit) + 1) : StartsWithAt(s, i, lit)

(***************************************************************************)
(* isValidYouTubeUrl, blog.js:25-27                                        *)
(*   url.match(/^https?:\/\/(www\.)?youtube\.com\/embed\/[a-zA-Z0-9_-]+/)  *)
(* The pattern is anchored at the start only.  The result is the match     *)
(* array (truthy) or null.                                                 *)
(***************************************************************************)
IdChar == Lower \cup Upper \cup Digit \cup {"_", "-"}

\* the pattern without an end anchor, as the source has it
YouTubePrefixLens(u) ==
    { n \in 0..Len(u) :
        \E sOpt \in {S_empty, S_s}, wOpt \in {S_empty, S_www} :
            LET head == S_http \o sOpt \o S_sep \o wOpt \o S_youtube \o S_embed
            IN  /\ StartsWithAt(u, 1, head)
                /\ n > Len(head)
                /\ \A k \in (Len(head) + 1)..n : u[k] \in IdChar }

isValidYouTubeUrl(u) == YouTubePrefixLens(u) # {}

(***************************************************************************)
(* Validator development: the url is drawn from a bounded set built from   *)
(* schemes, hosts, paths, video ids and trailing text; the one action      *)
(* applies isValidYouTubeUrl to it.                                        *)
(***************************************************************************)
UrlSchemes == {S_http, S_https, S_ftp, S_HTTPS, S_javascript}
UrlHosts == {S_youtube, S_YouTube, S_lookalike, S_youtubeXcom, S_evil}
UrlPaths == {S_embed, S_watch, <<"/">>}
UrlIds == {S_empty, S_id1, S_id2}
UrlTails == {S_empty, S_query, S_dotdot, S_space}

Urls ==
    { sc \o S_sep \o w \o h \o pa \o id \o tl :
        sc \in UrlSchemes, w \in {S_empty, S_www}, h \in UrlHosts,
        pa \in UrlPaths, id \in UrlIds, tl \in UrlTails }
    \cup {S_empty, S_space \o S_https \o S_sep \o S_youtube \o S_embed \o S_id1}

Procs == 1..2

Idle == [op |-> "idle", pc |-> "idle"]

NoEvent ==
    [handler |-> "none", admin |-> FALSE, path |-> <<>>, status |-> 0,
     error |-> "", cause |-> "", id |-> <<>>, slug |-> <<>>, rows |-> <<>>, nq |-> 0]
SanIdle == [phase |-> "idle"]
ListIdle == [phase |-> "idle"]
SlugIdle == [phase |-> "idle"]

WorkflowAtRest ==
    /\ posts = <<>>
    /\ req = [p \in Procs |-> Idle]
    /\ nextId = 0
    /\ clock = 0
    /\ event = NoEvent
    /\ held = 0

InitUrl ==
    /\ WorkflowAtRest
    /\ san = SanIdle
    /\ listing = ListIdle
    /\ slugged = SlugIdle
    /\ url \in Urls
    /\ verdict = "none"

\* the iframe transformer's call isValidYouTubeUrl(attribs.src), blog.js:43
ValidateUrl ==
    /\ verdict = "none"
    /\ verdict' = IF isValidYouTubeUrl(url) THEN "match" ELSE "null"
    /\ UNCHANGED <<wfVars, url, san, listing, slugged>>

NextUrl == ValidateUrl

SpecUrl == InitUrl /\ [][NextUrl]_vars

\* the shape the validator is documented to accept: the whole url is
\* http(s)://[www.]youtube.com/embed/ followed by one or more id characters
TrustedEmbedShape(u) ==
    \E sOpt \in {S_empty, S_s}, wOpt \in {S_empty, S_www} :
        LET head == S_http \o sOpt \o S_sep \o wOpt \o S_youtube \o S_embed
        IN  /\ StartsWithAt(u, 1, head)
            /\ Len(u) > Len(head)
            /\ \A k \in (Len(head) + 1)..Len(u) : u[k] \in IdChar

\* C10: isValidYouTubeUrl(url) is truthy only for a url that is, as a whole,
\* scheme http or https, optional www., host youtube.com, path /embed/ and one
\* or more characters of [A-Za-z0-9_-]; a url with a query string or other
\* characters after the video id is rejected.
C10_TruthyOnlyForExactShape == verdict = "match" => TrustedEmbedShape(url)

\* what the pattern of the source does guarantee: the url starts with the shape
C10_TruthyOnlyForShapePrefix ==
    verdict = "match" =>
        \E n \in 1..Len(url) : TrustedEmbedShape(SubSeq(url, 1, n))

\* every url of the exact shape is accepted
C10_ExactShapeAccepted == (verdict # "none" /\ TrustedEmbedShape(url)) => verdict = "match"

C10_Witness_TailAccepted ==
    /\ verdict = "match"
    /\ url = S_https \o S_sep \o S_youtube \o S_embed \o S_id1 \o S_query

(***************************************************************************)
(* HTML: names, attribute values and text used by the sanitizer            *)
(***************************************************************************)
T_p == <<"p">>
T_a == <<"a">>
T_button == <<"b", "u", "t", "t", "o", "n">>
T_img == <<"i", "m", "g">>
T_iframe == <<"i", "f", "r", "a", "m", "e">>
T_script == <<"s", "c", "r", "i", "p", "t">>
T_body == <<"b", "o", "d", "y">>
A_href == <<"h", "r", "e", "f">>
A_src == <<"s", "r", "c">>
A_onerror == <<"o", "n", "e", "r", "r", "o", "r">>
A_title == <<"t", "i", "t", "l", "e">>
A_width == <<"w", "i", "d", "t", "h">>
A_height == <<"h", "e", "i", "g", "h", "t">>
A_frameborder == <<"f", "r", "a", "m", "e", "b", "o", "r", "d", "e", "r">>
A_allow == <<"a", "l", "l", "o", "w">>
A_allowfullscreen == <<"a", "l", "l", "o", "w", "f", "u", "l", "l", "s", "c",
    "r", "e", "e", "n">>
V_100pct == <<"1", "0", "0", "%">>
V_400 == <<"4", "0", "0">>
V_0 == <<"0">>
V_1 == <<"1">>
V_allow == <<"a", "c", "c", "e", "l", "e", "r", "o", "m", "e", "t", "e", "r",
    ";", " ", "a", "u", "t", "o", "p", "l", "a", "y", ";", " ", "c", "l", "i",
    "p", "b", "o", "a", "r", "d", "-", "w", "r", "i", "t", "e", ";", " ", "e",
    "n", "c", "r", "y", "p", "t", "e", "d", "-", "m", "e", "d", "i", "a", ";",
    " ", "g", "y", "r", "o", "s", "c", "o", "p", "e", ";", " ", "p", "i", "c",
    "t", "u", "r", "e", "-", "i", "n", "-", "p", "i", "c", "t", "u", "r",
    "e">>
V_jsUrl == <<"j", "a", "v", "a", "s", "c", "r", "i", "p", "t", ":", "a", "l",
    "e", "r", "t", "(", "1", ")">>
V_jsUrlMixed == <<" ", "J", "a", "v", "a", "S", "c", "r", "i", "p", "t", ":",
    "a", "l", "e", "r", "t", "(", "1", ")">>
V_alert == <<"a", "l", "e", "r", "t", "(", "1", ")">>
V_png == <<"/", "x", ".", "p", "n", "g">>
V_dataPng == <<"d", "a", "t", "a", ":", "i", "m", "a", "g", "e", "/", "p", "n",
    "g", ";", "b", "a", "s", "e", "6", "4", ",", "A", "A", "=", "=">>
S_placeholder == <<"[", "I", "n", "v", "a", "l", "i", "d", " ", "v", "i", "d",
    "e", "o", " ", "e", "m", "b", "e", "d", "]">>
S_hi == <<"h", "i">>
S_jsText == <<"j", "a", "v", "a", "s", "c", "r", "i", "p", "t", ":", " ", "i",
    "s", " ", "a", " ", "l", "a", "n", "g", "u", "a", "g", "e">>
S_scriptOpen == <<"<", "s", "c", "r", "i", "p", "t", ">">>
S_onerrorEq == <<"o", "n", "e", "r", "r", "o", "r", "=">>
S_jsColon == <<"j", "a", "v", "a", "s", "c", "r", "i", "p", "t", ":">>
S_amp == <<"&", "a", "m", "p", ";">>
S_lt == <<"&", "l", "t", ";">>
S_gt == <<"&", "g", "t", ";">>
S_quot == <<"&", "q", "u", "o", "t", ";">>

Letter == Lower \cup Upper
Whitespace == {" "}

ToLowerChar(c) ==
    IF c \in Upper THEN LowerSeq[CHOOSE i \in 1..Len(UpperSeq) : UpperSeq[i] = c] ELSE c

\* String.prototype.toLowerCase
toLowerCase(s) == [k \in 1..Len(s) |-> ToLowerChar(s[k])]

\* the first index >= i of s holding a character of C, Len(s) + 1 when there is none
IndexOfChar(s, i, C) ==
    IF \E k \in i..Len(s) : s[k] \in C
    THEN CHOOSE k \in i..Len(s) : s[k] \in C /\ \A j \in i..(k - 1) : s[j] \notin C
    ELSE Len(s) + 1

\* the first index >= i where lit starts in the lower-cased s, Len(s) + 1 when there is none
IndexOfLit(s, i, lit) ==
    LET ls == toLowerCase(s)
        hit(k) == StartsWithAt(ls, k, lit)
    IN  IF \E k \in i..Len(s) : hit(k)
        THEN CHOOSE k \in i..Len(s) : hit(k) /\ \A j \in i..(k - 1) : ~hit(j)
        ELSE Len(s) + 1

(***************************************************************************)
(* The HTML parser DOMPurify runs on its input (jsdom's DOMParser, body    *)
(* context): tokenizer and tree construction, for markup made of the       *)
(* elements p, a, button, img, iframe, script, double-quoted attributes    *)
(* and text with the character references &amp; &lt; &gt; &quot;.          *)
(***************************************************************************)
RECURSIVE DecodeRefs(_)
DecodeRefs(s) ==
    IF s = <<>> THEN <<>>
    ELSE IF StartsWithAt(s, 1, S_amp) THEN <<"&">> \o DecodeRefs(SubSeq(s, 6, Len(s)))
    ELSE IF StartsWithAt(s, 1, S_lt) THEN <<"<">> \o DecodeRefs(SubSeq(s, 5, Len(s)))
    ELSE IF StartsWithAt(s, 1, S_gt) THEN <<">">> \o DecodeRefs(SubSeq(s, 5, Len(s)))
    ELSE IF StartsWithAt(s, 1, S_quot) THEN <<"\"">> \o DecodeRefs(SubSeq(s, 7, Len(s)))
    ELSE <<Head(s)>> \o DecodeRefs(Tail(s))

\* the attributes of a start tag from index i on: the list and the index of the closing >
RECURSIVE AttrsFrom(_, _)
AttrsFrom(s, i) ==
    IF i > Len(s) THEN [attrs |-> <<>>, end |-> Len(s) + 1]
    ELSE IF s[i] = ">" THEN [attrs |-> <<>>, end |-> i]
    ELSE IF s[i] \in Whitespace \cup {"/"} THEN AttrsFrom(s, i + 1)
    ELSE
        LET j == IndexOfChar(s, i, Whitespace \cup {"=", ">", "/"})
            name == toLowerCase(SubSeq(s, i, j - 1))
            quoted == j + 1 <= Len(s) /\ s[j] = "=" /\ s[j + 1] = "\""
            k == IF quoted THEN IndexOfChar(s, j + 2, {"\""}) ELSE j
            value == IF quoted THEN DecodeRefs(SubSeq(s, j + 2, k - 1)) ELSE <<>>
            rest == AttrsFrom(s, IF quoted THEN k + 1 ELSE IF j <= Len(s) /\ s[j] = "=" THEN j + 1 ELSE j)
            \* a second attribute of the same name is dropped
            later == SelectSeq(rest.attrs, LAMBDA a : a.name # name)
        IN  [attrs |-> <<[name |-> name, value |-> value]>> \o later, end |-> rest.end]

RawTextTags == {T_script, T_iframe}

RECURSIVE Tokenize(_, _)
Tokenize(s, i) ==
    IF i > Len(s) THEN <<>>
    ELSE IF s[i] = "<" /\ i + 2 <= Len(s) /\ s[i + 1] = "/" /\ s[i + 2] \in Letter THEN
        LET nameEnd == IndexOfChar(s, i + 2, Whitespace \cup {">", "/"})
            close == IndexOfChar(s, i + 2, {">"})
        IN  <<[t |-> "end", tag |-> toLowerCase(SubSeq(s, i + 2, nameEnd - 1))]>>
            \o Tokenize(s, close + 1)
    ELSE IF s[i] = "<" /\ i + 1 <= Len(s) /\ s[i + 1] \in Letter THEN
        LET nameEnd == IndexOfChar(s, i + 1, Whitespace \cup {">", "/"})
            tag == toLowerCase(SubSeq(s, i + 1, nameEnd - 1))
            at == AttrsFrom(s, nameEnd)
            start == [t |-> "start", tag |-> tag, attrs |-> at.attrs]
        IN  IF at.end > Len(s) THEN <<>>
            ELSE IF tag \in RawTextTags THEN
                \* script data / RAWTEXT: everything up to the matching end tag is text
                LET closing == IndexOfLit(s, at.end + 1, <<"<", "/">> \o tag)
                    raw == SubSeq(s, at.end + 1, closing - 1)
                IN  <<start>>
                    \o (IF raw = <<>> THEN <<>> ELSE <<[t |-> "text", text |-> raw]>>)
                    \o Tokenize(s, closing)
            ELSE <<start>> \o Tokenize(s, at.end + 1)
    ELSE
        LET j == IndexOfChar(s, i + 1, {"<"})
        IN  <<[t |-> "text", text |-> DecodeRefs(SubSeq(s, i, j - 1))]>> \o Tokenize(s, j)

\* DOM nodes
TextNode(text) == [kind |-> "text", text |-> text]
ElemNode(tag, attrs, kids) == [kind |-> "elem", tag |-> tag, attrs |-> attrs, kids |-> kids]

\* Tree construction ("in body"): the stack of open elements, each with the
\* children built so far, and the list of active formatting elements (afl).
\* An afl entry is "open" while its element is on the stack, "closed" when the
\* element was popped but the entry stayed, "removed" once taken off the list.
Frame(tag, attrs, fmt) == [tag |-> tag, attrs |-> attrs, kids |-> <<>>, fmt |-> fmt]
InitPs == [stack |-> <<Frame(T_body, <<>>, 0)>>, afl |-> <<>>, unsupported |-> FALSE]

ImpliedEndTags == {T_p}
ButtonScopeBoundary == {T_button}
SpecialTags == {T_p, T_button, T_img, T_iframe, T_script, T_body}
FormattingTags == {T_a}

Top(ps) == ps.stack[Len(ps.stack)]

\* append a node to the current node; adjacent text is one text node
AppendKid(stack, node) ==
    LET n == Len(stack)
        kids == stack[n].kids
        m == Len(kids)
        merged == IF node.kind = "text" /\ m > 0 /\ kids[m].kind = "text"
                  THEN [kids EXCEPT ![m].text = @ \o node.text]
                  ELSE Append(kids, node)
    IN  [stack EXCEPT ![n].kids = merged]

PopOne(ps) ==
    LET n == Len(ps.stack)
        top == ps.stack[n]
        el == ElemNode(top.tag, top.attrs, top.kids)
    IN  [ps EXCEPT !.stack = AppendKid(SubSeq(ps.stack, 1, n - 1), el),
                   !.afl = IF top.fmt > 0 /\ ps.afl[top.fmt].st = "open"
                           THEN [ps.afl EXCEPT ![top.fmt].st = "closed"]
                           ELSE ps.afl]

\* pop down to a stack of n elements
RECURSIVE PopTo(_, _)
PopTo(ps, n) == IF Len(ps.stack) <= n \/ Len(ps.stack) = 1 THEN ps ELSE PopTo(PopOne(ps), n)

\* the highest stack index holding an element named tag, 0 when there is none
LastIndexOfTag(stack, tag) ==
    IF \E i \in 2..Len(stack) : stack[i].tag = tag
    THEN CHOOSE i \in 2..Len(stack) :
            stack[i].tag = tag /\ \A j \in (i + 1)..Len(stack) : stack[j].tag # tag
    ELSE 0

PopUntilPopped(ps, tag) ==
    LET i == LastIndexOfTag(ps.stack, tag)
    IN  IF i = 0 THEN PopTo(ps, 1) ELSE PopTo(ps, i - 1)

HasInScopeOf(stack, tag, boundary) ==
    \E i \in 2..Len(stack) :
        /\ stack[i].tag = tag
        /\ \A j \in (i + 1)..Len(stack) : stack[j].tag \notin boundary /\ stack[j].tag # tag

HasInButtonScope(stack, tag) == HasInScopeOf(stack, tag, ButtonScopeBoundary)
HasInScope(stack, tag) == HasInScopeOf(stack, tag, {})

RECURSIVE GenerateImpliedEndTags(_, _)
GenerateImpliedEndTags(ps, except) ==
    IF Len(ps.stack) > 1 /\ Top(ps).tag \in ImpliedEndTags \ {except}
    THEN GenerateImpliedEndTags(PopOne(ps), except)
    ELSE ps

ClosePElement(ps) == PopUntilPopped(GenerateImpliedEndTags(ps, T_p), T_p)

Push(ps, tag, attrs, fmt) == [ps EXCEPT !.stack = Append(@, Frame(tag, attrs, fmt))]

LiveEntries(afl) == {k \in 1..Len(afl) : afl[k].st # "removed"}
Max(S) == CHOOSE x \in S : \A y \in S : y <= x

\* reconstruct the active formatting elements: reopen the entries after the last open one
RECURSIVE ReopenFrom(_, _)
ReopenFrom(ps, k) ==
    IF k > Len(ps.afl) THEN ps
    ELSE IF ps.afl[k].st # "closed" THEN ReopenFrom(ps, k + 1)
    ELSE ReopenFrom([Push(ps, ps.afl[k].tag, ps.afl[k].attrs, k) EXCEPT !.afl[k].st = "open"],
                    k + 1)

Reconstruct(ps) ==
    LET live == LiveEntries(ps.afl)
        opened == {k \in live : ps.afl[k].st = "open"}
    IN  IF live = {} \/ ps.afl[Max(live)].st = "open" THEN ps
        ELSE ReopenFrom(ps, IF opened = {} THEN 1 ELSE Max(opened) + 1)

\* "any other end tag"
RECURSIVE AnyOtherEndTagFrom(_, _, _)
AnyOtherEndTagFrom(ps, tag, i) ==
    IF i < 2 THEN ps
    ELSE IF ps.stack[i].tag = tag THEN PopTo(GenerateImpliedEndTags(ps, tag), i - 1)
    ELSE IF ps.stack[i].tag \in SpecialTags THEN ps
    ELSE AnyOtherEndTagFrom(ps, tag, i - 1)

AnyOtherEndTag(ps, tag) == AnyOtherEndTagFrom(ps, tag, Len(ps.stack))

\* the adoption agency algorithm; its furthest-block branch is outside the
\* markup handled here and is reported in the unsupported flag
AdoptionAgency(ps, tag) ==
    LET top == Top(ps)
        cands == {k \in LiveEntries(ps.afl) : ps.afl[k].tag = tag}
    IN  IF Len(ps.stack) > 1 /\ top.tag = tag
           /\ (top.fmt = 0 \/ ps.afl[top.fmt].st = "removed")
        THEN PopOne(ps)
        ELSE IF cands = {} THEN AnyOtherEndTag(ps, tag)
        ELSE
            LET fe == Max(cands)
            IN  IF ps.afl[fe].st = "closed" THEN [ps EXCEPT !.afl[fe].st = "removed"]
                ELSE
                    LET idx == CHOOSE i \in 2..Len(ps.stack) : ps.stack[i].fmt = fe
                    IN  IF \E j \in (idx + 1)..Len(ps.stack) : ps.stack[j].tag \in SpecialTags
                        THEN [ps EXCEPT !.unsupported = TRUE]
                        ELSE [PopTo(ps, idx - 1) EXCEPT !.afl[fe].st = "removed"]

StartTag(ps, tok) ==
    IF tok.tag = T_p THEN
        Push(IF HasInButtonScope(ps.stack, T_p) THEN ClosePElement(ps) ELSE ps,
             T_p, tok.attrs, 0)
    ELSE IF tok.tag \in FormattingTags THEN
        LET ps1 == IF \E k \in LiveEntries(ps.afl) : ps.afl[k].tag = tok.tag
                   THEN AdoptionAgency(ps, tok.tag) ELSE ps
            ps2 == Reconstruct(ps1)
            k == Len(ps2.afl) + 1
        IN  [Push(ps2, tok.tag, tok.attrs, k) EXCEPT
                !.afl = Append(@, [tag |-> tok.tag, attrs |-> tok.attrs, st |-> "open"])]
    ELSE IF tok.tag = T_button THEN
        LET ps1 == IF HasInScope(ps.stack, T_button)
                   THEN PopUntilPopped(GenerateImpliedEndTags(ps, <<>>), T_button) ELSE ps
        IN  Push(Reconstruct(ps1), T_button, tok.attrs, 0)
    ELSE IF tok.tag = T_img THEN
        LET ps1 == Reconstruct(ps)
        IN  [ps1 EXCEPT !.stack = AppendKid(@, ElemNode(T_img, tok.attrs, <<>>))]
    ELSE IF tok.tag \in RawTextTags THEN Push(ps, tok.tag, tok.attrs, 0)
    ELSE Push(Reconstruct(ps), tok.tag, tok.attrs, 0)

EndTag(ps, tok) ==
    IF Len(ps.stack) > 1 /\ Top(ps).tag \in RawTextTags THEN PopOne(ps)
    ELSE IF tok.tag = T_p THEN
        ClosePElement(IF HasInButtonScope(ps.stack, T_p) THEN ps ELSE Push(ps, T_p, <<>>, 0))
    ELSE IF tok.tag \in FormattingTags THEN AdoptionAgency(ps, tok.tag)
    ELSE IF tok.tag = T_button THEN
        IF HasInScope(ps.stack, T_button)
        THEN PopUntilPopped(GenerateImpliedEndTags(ps, <<>>), T_button)
        ELSE ps
    ELSE AnyOtherEndTag(ps, tok.tag)

Character(ps, tok) ==
    LET ps1 == IF Top(ps).tag \in RawTextTags THEN ps ELSE Reconstruct(ps)
    IN  [ps1 EXCEPT !.stack = AppendKid(@, TextNode(tok.text))]

RECURSIVE Build(_, _, _)
Build(toks, i, ps) ==
    IF i > Len(toks) THEN PopTo(ps, 1)
    ELSE Build(toks, i + 1,
               IF toks[i].t = "start" THEN StartTag(ps, toks[i])
               ELSE IF toks[i].t = "end" THEN EndTag(ps, toks[i])
               ELSE Character(ps, toks[i]))

ParseState(s) == Build(Tokenize(s, 1), 1, InitPs)

\* the children of body after parsing s
Parse(s) == ParseState(s).stack[1].kids

(***************************************************************************)
(* Serialization of the sanitized body (body.innerHTML)                    *)
(***************************************************************************)
VoidTags == {T_img, <<"b", "r">>}

RECURSIVE EscapeText(_)
EscapeText(s) ==
    IF s = <<>> THEN <<>>
    ELSE (CASE Head(s) = "&" -> S_amp
            [] Head(s) = "<" -> S_lt
            [] Head(s) = ">" -> S_gt
            [] OTHER -> <<Head(s)>>) \o EscapeText(Tail(s))

RECURSIVE EscapeAttr(_)
EscapeAttr(s) ==
    IF s = <<>> THEN <<>>
    ELSE (CASE Head(s) = "&" -> S_amp
            [] Head(s) = "\"" -> S_quot
            [] OTHER -> <<Head(s)>>) \o EscapeAttr(Tail(s))

RECURSIVE SerializeAttrs(_)
SerializeAttrs(attrs) ==
    IF attrs = <<>> THEN <<>>
    ELSE <<" ">> \o Head(attrs).name \o <<"=", "\"">> \o EscapeAttr(Head(attrs).value)
         \o <<"\"">> \o SerializeAttrs(Tail(attrs))

OpenTag(tag, attrs) == <<"<">> \o tag \o SerializeAttrs(attrs) \o <<">">>
CloseTag(tag) == <<"<", "/">> \o tag \o <<">">>

RECURSIVE Serialize(_, _)
Serialize(forest, parentTag) ==
    IF forest = <<>> THEN <<>>
    ELSE
        LET n == Head(forest)
            this == IF n.kind = "text"
                    THEN (IF parentTag \in RawTextTags THEN n.text ELSE EscapeText(n.text))
                    ELSE OpenTag(n.tag, n.attrs)
                         \o (IF n.tag \in VoidTags THEN <<>>
                             ELSE Serialize(n.kids, n.tag) \o CloseTag(n.tag))
        IN  this \o Serialize(Tail(forest), parentTag)

innerHTML(forest) == Serialize(forest, T_body)

(***************************************************************************)
(* DOMPurify as configured at blog.js:14-22.  DOMPurify.setConfig makes    *)
(* the configuration persistent: once it was called, sanitize() ignores    *)
(* the configuration object passed with a call.  DOMPurify has no          *)
(* transformTags option, so the iframe transformer of blog.js:40-61 is     *)
(* never invoked.                                                          *)
(***************************************************************************)
S_ftps == <<"f", "t", "p", "s">>
S_mailto == <<"m", "a", "i", "l", "t", "o">>
S_tel == <<"t", "e", "l">>
S_callto == <<"c", "a", "l", "l", "t", "o">>
S_cid == <<"c", "i", "d">>
S_xmpp == <<"x", "m", "p", "p">>
S_xxx == <<"x", "x", "x">>
S_dataColon == <<"d", "a", "t", "a", ":">>

\* ALLOWED_TAGS together with ADD_TAGS, blog.js:15,18-21
ALLOWED_TAGS ==
    { T_a, <<"b">>, <<"b", "r">>, <<"d", "i", "v">>, <<"e", "m">>,
      <<"h", "1">>, <<"h", "2">>, <<"h", "3">>, <<"h", "4">>, <<"h", "5">>, <<"h", "6">>,
      <<"i">>, T_iframe, T_img, <<"l", "i">>, <<"o", "l">>, T_p,
      <<"s", "p", "a", "n">>, <<"s", "t", "r", "o", "n", "g">>, <<"u", "l">> }

\* ADD_ATTR, blog.js:16
ADD_ATTR ==
    { A_allow, A_allowfullscreen, A_frameborder,
      <<"s", "c", "r", "o", "l", "l", "i", "n", "g">>, A_src, A_title, A_width, A_height }

\* DOMPurify's default attribute allow-list, the names that occur here
DEFAULT_ALLOWED_ATTR == {A_href, A_src, A_title, A_width, A_height}

\* DOMPurify's default tag allow-list, the names that occur here
DEFAULT_ALLOWED_TAGS == {T_a, T_p, T_img, T_button}

\* elements whose content is dropped with them when they are removed
FORBID_CONTENTS == {T_script, T_iframe}

URI_SAFE_ATTRIBUTES == {A_title}
DATA_URI_TAGS == {T_img}

\* the persistent configuration, blog.js:14-22
PersistentConfig ==
    [tags |-> ALLOWED_TAGS, attrs |-> DEFAULT_ALLOWED_ATTR \cup ADD_ATTR,
     unknownProtocols |-> FALSE]

\* the configuration passed with each call, blog.js:31-62, as _parseConfig reads it
CallConfig ==
    [tags |-> DEFAULT_ALLOWED_TAGS, attrs |-> DEFAULT_ALLOWED_ATTR,
     unknownProtocols |-> TRUE]

SET_CONFIG == TRUE

EffectiveConfig(cfg) == IF SET_CONFIG THEN PersistentConfig ELSE cfg

UriClass == Letter \cup {"+", ".", "-"}

\* ALLOWED_URI_REGEXP, blog.js:17
\*   /^(?:(?:(?:f|ht)tps?|mailto|tel|callto|cid|xmpp|xxx):|[^a-z]|[a-z+.\-]+(?:[^a-z+.\-:]|$))/i
IS_ALLOWED_URI(v) ==
    LET lv == toLowerCase(v)
        run == IndexOfChar(v, 1, {c \in Range(v) : c \notin UriClass}) - 1
    IN  \/ \E sc \in {S_ftp, S_ftps, S_http, S_https, S_mailto, S_tel, S_callto,
                      S_cid, S_xmpp, S_xxx} : StartsWithAt(lv, 1, sc \o <<":">>)
        \/ Len(v) >= 1 /\ v[1] \notin Letter
        \/ run >= 1 /\ (run = Len(v) \/ v[run + 1] # ":")

\* IS_SCRIPT_OR_DATA: /^(?:\w+script|data):/i
IS_SCRIPT_OR_DATA(v) ==
    LET lv == toLowerCase(v)
        colon == IndexOfChar(lv, 1, {":"})
        word == SubSeq(lv, 1, colon - 1)
    IN  /\ colon <= Len(lv)
        /\ \A k \in 1..Len(word) : word[k] \in Letter \cup Digit \cup {"_"}
        /\ \/ word = <<"d", "a", "t", "a">>
           \/ Len(word) > 6 /\ SubSeq(word, Len(word) - 5, Len(word)) = T_script

\* ATTR_WHITESPACE is removed from a value before the URI test
StripWhitespace(v) == SelectSeq(v, LAMBDA c : c \notin Whitespace)

RECURSIVE TrimLeft(_)
TrimLeft(v) == IF v # <<>> /\ Head(v) \in Whitespace THEN TrimLeft(Tail(v)) ELSE v
RECURSIVE TrimRight(_)
TrimRight(v) ==
    IF v # <<>> /\ v[Len(v)] \in Whitespace THEN TrimRight(SubSeq(v, 1, Len(v) - 1)) ELSE v
stringTrim(v) == TrimRight(TrimLeft(v))

\* a mutant: no attribute value is tested against the URI pattern
isValidAttribute_noUriTest(cfg, tag, name, value) == name \in cfg.attrs

\* DOMPurify _isValidAttribute
isValidAttribute(cfg, tag, name, value) ==
    IF name \notin cfg.attrs THEN FALSE
    ELSE IF name \in URI_SAFE_ATTRIBUTES THEN TRUE
    ELSE IF IS_ALLOWED_URI(StripWhitespace(value)) THEN TRUE
    ELSE IF name \in {A_src, A_href} /\ tag # T_script
            /\ StartsWithAt(value, 1, S_dataColon) /\ tag \in DATA_URI_TAGS THEN TRUE
    ELSE IF cfg.unknownProtocols /\ ~IS_SCRIPT_OR_DATA(StripWhitespace(value)) THEN TRUE
    ELSE value = <<>>

\* DOMPurify _sanitizeAttributes: each value is trimmed, invalid attributes are removed
sanitizeAttributes(cfg, tag, attrs) ==
    LET trimmed == [k \in 1..Len(attrs) |->
                        [name |-> attrs[k].name, value |-> stringTrim(attrs[k].value)]]
    IN  SelectSeq(trimmed, LAMBDA a : isValidAttribute(cfg, tag, a.name, a.value))

\* DOMPurify _sanitizeElements over the body: a disallowed element is removed,
\* its children take its place (KEEP_CONTENT) unless it is in FORBID_CONTENTS
RECURSIVE sanitizeElements(_, _)
sanitizeElements(cfg, forest) ==
    IF forest = <<>> THEN <<>>
    ELSE
        LET n == Head(forest)
            this == IF n.kind = "text" THEN <<n>>
                    ELSE IF n.tag \notin cfg.tags
                    THEN (IF n.tag \in FORBID_CONTENTS THEN <<>>
                          ELSE sanitizeElements(cfg, n.kids))
                    ELSE <<ElemNode(n.tag, sanitizeAttributes(cfg, n.tag, n.attrs),
                                    sanitizeElements(cfg, n.kids))>>
        IN  this \o sanitizeElements(cfg, Tail(forest))

\* DOMPurify.sanitize(dirty, cfg): parse, walk, serialize
DOMPurify_sanitize(dirty, cfg) ==
    innerHTML(sanitizeElements(EffectiveConfig(cfg), Parse(dirty)))

\* the transformer written at blog.js:41-60 (a sanitize-html option)
transformTags_iframe(attribs) ==
    LET srcs == SelectSeq(attribs, LAMBDA a : a.name = A_src)
        fixed == <<[name |-> A_width, value |-> V_100pct],
                   [name |-> A_height, value |-> V_400],
                   [name |-> A_frameborder, value |-> V_0],
                   [name |-> A_allow, value |-> V_allow],
                   [name |-> A_allowfullscreen, value |-> <<>>]>>
        fixedNames == {fixed[k].name : k \in 1..Len(fixed)}
    IN  IF srcs = <<>> \/ ~isValidYouTubeUrl(srcs[1].value)
        THEN ElemNode(T_p, <<>>, <<TextNode(S_placeholder)>>)
        ELSE ElemNode(T_iframe,
                      SelectSeq(attribs, LAMBDA a : a.name \notin fixedNames) \o fixed, <<>>)

\* sanitizeContent, blog.js:30-63
sanitizeContent(content) == DOMPurify_sanitize(content, CallConfig)

(***************************************************************************)
(* Sanitizer development: the author's content is drawn from a bounded set *)
(* of markup strings (containers nested up to MaxDepth around up to        *)
(* MaxLeaves leaves); it is sanitized, and the result is sanitized again   *)
(* as an update that resubmits stored content does.                        *)
(***************************************************************************)
MaxDepth == 3
MaxLeaves == 1

Attr(name, value) == [name |-> name, value |-> value]

U_trusted == S_https \o S_sep \o S_www \o S_youtube \o S_embed \o S_id2
U_trustedTail == S_https \o S_sep \o S_youtube \o S_embed \o S_id1 \o S_query
U_evil == S_https \o S_sep \o S_evil \o <<"/", "x">>

Leaves ==
    { S_hi,
      S_jsText,
      S_lt \o T_script \o S_gt,
      OpenTag(T_script, <<>>) \o V_alert \o CloseTag(T_script),
      OpenTag(T_img, <<Attr(A_src, V_png), Attr(A_onerror, V_alert)>>),
      OpenTag(T_img, <<Attr(A_src, V_jsUrlMixed)>>),
      OpenTag(T_img, <<Attr(A_src, V_dataPng)>>),
      OpenTag(T_iframe, <<Attr(A_src, U_trusted), Attr(A_width, V_1), Attr(A_height, V_1)>>)
        \o CloseTag(T_iframe),
      OpenTag(T_iframe, <<Attr(A_src, U_trustedTail)>>) \o CloseTag(T_iframe),
      OpenTag(T_iframe, <<Attr(A_src, U_evil)>>) \o CloseTag(T_iframe),
      OpenTag(T_iframe, <<>>) \o CloseTag(T_iframe) }

Containers ==
    { [tag |-> T_p, attrs |-> <<>>],
      [tag |-> T_button, attrs |-> <<>>],
      [tag |-> T_a, attrs |-> <<Attr(A_href, V_jsUrl)>>],
      [tag |-> T_a, attrs |-> <<Attr(A_href, V_png), Attr(A_title, S_jsColon)>>] }

RECURSIVE LeafRuns(_)
LeafRuns(n) ==
    IF n = 0 THEN {<<>>}
    ELSE LET shorter == LeafRuns(n - 1)
         IN  shorter \cup {l \o r : l \in Leaves, r \in shorter}

\* chains of containers; a second a element inside an a element is left out
\* (the parser's adoption agency would have to move a block out of it)
RECURSIVE Chains(_)
Chains(n) ==
    IF n = 0 THEN {<<>>}
    ELSE LET shorter == Chains(n - 1)
         IN  shorter \cup
             { x \in {<<c>> \o ch : c \in Containers, ch \in shorter} :
                 Cardinality({k \in 1..Len(x) : x[k].tag = T_a}) <= 1 }

RECURSIVE Wrap(_, _)
Wrap(chain, inner) ==
    IF chain = <<>> THEN inner
    ELSE OpenTag(Head(chain).tag, Head(chain).attrs) \o Wrap(Tail(chain), inner)
         \o CloseTag(Head(chain).tag)

Contents == {Wrap(ch, run) : ch \in Chains(MaxDepth), run \in LeafRuns(MaxLeaves)}

InitSan ==
    /\ WorkflowAtRest
    /\ url = S_empty
    /\ verdict = "none"
    /\ \E c \in Contents : san = [phase |-> "input", input |-> c, out |-> <<>>, out2 |-> <<>>]
    /\ listing = ListIdle
    /\ slugged = SlugIdle

\* create: const sanitizedContent = sanitizeContent(content), blog.js:113
Sanitize ==
    /\ san.phase = "input"
    /\ san' = [san EXCEPT !.phase = "once", !.out = sanitizeContent(san.input)]
    /\ UNCHANGED <<wfVars, url, verdict, listing, slugged>>

\* update with the stored content: sanitizeContent(content), blog.js:235
Resanitize ==
    /\ san.phase = "once"
    /\ san' = [san EXCEPT !.phase = "twice", !.out2 = sanitizeContent(san.out)]
    /\ UNCHANGED <<wfVars, url, verdict, listing, slugged>>

NextSan == Sanitize \/ Resanitize

SpecSan == InitSan /\ [][NextSan]_vars

\* every string handed to the parser stays inside the markup it handles
ParserInFragment ==
    /\ san.phase # "idle" => ~ParseState(san.input).unsupported
    /\ san.phase \in {"once", "twice"} => ~ParseState(san.out).unsupported

\* the elements of a forest, at every depth
RECURSIVE AllElements(_)
AllElements(forest) ==
    IF forest = <<>> THEN {}
    ELSE (IF Head(forest).kind = "elem"
          THEN {Head(forest)} \cup AllElements(Head(forest).kids)
          ELSE {}) \cup AllElements(Tail(forest))

HasAttr(e, name, value) == \E k \in 1..Len(e.attrs) : e.attrs[k] = Attr(name, value)
AttrValues(e, name) == {e.attrs[k].value : k \in {j \in 1..Len(e.attrs) : e.attrs[j].name = name}}

Sanitized == san.phase \in {"once", "twice"}

TrustedIframe(e) ==
    /\ \E v \in AttrValues(e, A_src) : isValidYouTubeUrl(v)
    /\ HasAttr(e, A_width, V_100pct)
    /\ HasAttr(e, A_height, V_400)
    /\ HasAttr(e, A_frameborder, V_0)
    /\ HasAttr(e, A_allow, V_allow)
    /\ HasAttr(e, A_allowfullscreen, <<>>)

RejectedIframe(e) ==
    /\ e.tag = T_iframe
    /\ \A v \in AttrValues(e, A_src) : ~isValidYouTubeUrl(v)

PlaceholderParagraph == OpenTag(T_p, <<>>) \o S_placeholder \o CloseTag(T_p)

\* C5: every iframe element in the output of sanitizeContent has a src accepted
\* by isValidYouTubeUrl and carries the fixed width, height, frameborder, allow
\* and allowfullscreen attributes; an input iframe whose src is rejected appears
\* in the output as the placeholder paragraph and not as an iframe.
C5_IframesTrustedAndFixed ==
    Sanitized =>
        /\ \A e \in AllElements(Parse(san.out)) : e.tag = T_iframe => TrustedIframe(e)
        /\ (\E e \in AllElements(Parse(san.input)) : RejectedIframe(e))
              => Includes(san.out, PlaceholderParagraph)

\* C6: sanitizeContent is idempotent: sanitizing its own output returns that output.
C6_Idempotent == san.phase = "twice" => san.out2 = san.out

JsUrl(v) == StartsWithAt(toLowerCase(StripWhitespace(v)), 1, S_jsColon)
EventHandlerName(name) == StartsWithAt(name, 1, <<"o", "n">>)

HasScriptMarkup(forest) ==
    \E e \in AllElements(forest) :
        \/ e.tag = T_script
        \/ \E k \in 1..Len(e.attrs) :
              \/ EventHandlerName(e.attrs[k].name)
              \/ e.attrs[k].name \in {A_href, A_src} /\ JsUrl(e.attrs[k].value)

\* C7 as stated: for every input that contains a script tag, an onerror=
\* attribute or a javascript: URL in an href or src, the output contains none
\* of the substrings <script>, onerror= and javascript:.
C7_NoDangerousSubstrings ==
    (Sanitized /\ HasScriptMarkup(Parse(san.input))) =>
        /\ ~Includes(san.out, S_scriptOpen)
        /\ ~Includes(san.out, S_onerrorEq)
        /\ ~Includes(san.out, S_jsColon)

\* C7 amended: for every such input the output, read as markup, has no script
\* element, no event-handler attribute and no href or src holding a
\* javascript: URL (the words may remain as text or in a title attribute).
C7_NoScriptMarkup ==
    (Sanitized /\ HasScriptMarkup(Parse(san.input))) => ~HasScriptMarkup(Parse(san.out))

C7_Witness_JsLinkNeutralized ==
    /\ Sanitized
    /\ \E e \in AllElements(Parse(san.input)) :
          e.tag = T_a /\ \E v \in AttrValues(e, A_href) : JsUrl(v)
    /\ \E e \in AllElements(Parse(san.out)) : e.tag = T_a /\ AttrValues(e, A_href) = {}
    /\ Includes(san.out, S_jsColon)

(***************************************************************************)
(* Publication workflow: the handlers of blog.js over the table blog_posts *)
(***************************************************************************)
S_posts == <<"p", "o", "s", "t", "s">>
S_categories == <<"c", "a", "t", "e", "g", "o", "r", "i", "e", "s">>
S_featured == <<"f", "e", "a", "t", "u", "r", "e", "d">>
S_trending == <<"t", "r", "e", "n", "d", "i", "n", "g">>
S_reorder == <<"r", "e", "o", "r", "d", "e", "r">>
S_status == <<"s", "t", "a", "t", "u", "s">>

SlugChar == Lower \cup Digit

\* .replace(/[^a-z0-9]+/g, '-'): every maximal run of other characters becomes one hyphen
RECURSIVE ReplaceRuns(_)
ReplaceRuns(s) ==
    IF s = <<>> THEN <<>>
    ELSE IF Head(s) \in SlugChar THEN <<Head(s)>> \o ReplaceRuns(Tail(s))
    ELSE <<"-">> \o ReplaceRuns(SubSeq(s, IndexOfChar(s, 1, SlugChar), Len(s)))

\* .replace(/(^-|-$)/g, ''): one hyphen at the start and one at the end are removed
StripHyphens(s) ==
    LET a == IF s # <<>> /\ s[1] = "-" THEN Tail(s) ELSE s
    IN  IF a # <<>> /\ a[Len(a)] = "-" THEN SubSeq(a, 1, Len(a) - 1) ELSE a

\* a mutant: a title that leaves no slug character gets the slug "-"
slugify_keepHyphen(title) ==
    LET r == ReplaceRuns(toLowerCase(title)) IN IF r = <<"-">> THEN r ELSE StripHyphens(r)

\* the slug computed at blog.js:98-101 and 219-222
slugify(title) == StripHyphens(ReplaceRuns(toLowerCase(title)))

\* router.<method>(path, handler) in registration order, blog.js:71-407;
\* a path is the list of its segments, a pattern segment is a literal or a parameter
Lit(s) == [lit |-> TRUE, s |-> s]
Param == [lit |-> FALSE, s |-> <<>>]

Routes ==
    << [method |-> "POST", pattern |-> <<Lit(S_posts)>>, handler |-> "createPost"],
       [method |-> "GET", pattern |-> <<Lit(S_posts)>>, handler |-> "listPosts"],
       [method |-> "GET", pattern |-> <<Lit(S_posts), Param>>, handler |-> "getPost"],
       [method |-> "PUT", pattern |-> <<Lit(S_posts), Param>>, handler |-> "updatePost"],
       [method |-> "DELETE", pattern |-> <<Lit(S_posts), Param>>, handler |-> "deletePost"],
       [method |-> "GET", pattern |-> <<Lit(S_categories)>>, handler |-> "listCategories"],
       [method |-> "PATCH", pattern |-> <<Lit(S_posts), Param, Lit(S_status)>>,
        handler |-> "setStatus"],
       [method |-> "POST", pattern |-> <<Lit(S_posts), Lit(S_reorder)>>, handler |-> "reorder"],
       [method |-> "GET", pattern |-> <<Lit(S_posts), Lit(S_featured)>>,
        handler |-> "listFeatured"],
       [method |-> "GET", pattern |-> <<Lit(S_posts), Lit(S_trending)>>,
        handler |-> "listTrending"] >>

Matches(route, r) ==
    /\ route.method = r.method
    /\ Len(route.pattern) = Len(r.path)
    /\ \A k \in 1..Len(r.path) : route.pattern[k].lit => route.pattern[k].s = r.path[k]

\* a mutant: the literal routes are tried before the routes with a parameter
Handler_literalFirst(r) ==
    LET hits == {k \in 1..Len(Routes) : Matches(Routes[k], r)}
        literal == {k \in hits : \A j \in 1..Len(Routes[k].pattern) : Routes[k].pattern[j].lit}
    IN  IF hits = {} THEN "none"
        ELSE IF literal # {} THEN Routes[CHOOSE k \in literal : \A j \in literal : k <= j].handler
        ELSE Routes[CHOOSE k \in hits : \A j \in hits : k <= j].handler

\* Express answers with the first registered route that matches
Handler(r) ==
    LET hits == {k \in 1..Len(Routes) : Matches(Routes[k], r)}
    IN  IF hits = {} THEN "none"
        ELSE Routes[CHOOSE k \in hits : \A j \in hits : k <= j].handler

MaxIds == 2

NULL == <<>>
Some(n) == <<n>>

\* uuidv4(): an id no post ever had
IdSeg(n) == <<DigitSeq[n + 1]>>
uuidv4 == IdSeg(nextId + 1)
Ids == {IdSeg(n) : n \in 1..MaxIds}

Title_AB == <<"A", " ", "b", "!">>
Title_ab == <<"a", "-", "-", "B">>
Title_punct == <<" ", "-", "-", "-", " ">>
S_ab == <<"a", "-", "b">>

Content_clean == OpenTag(T_p, <<>>) \o S_hi \o CloseTag(T_p)
Content_dirty == OpenTag(T_img, <<Attr(A_src, V_png), Attr(A_onerror, V_alert)>>)

\* req.body: the fields the caller sent are named in given
Body(title, content, category) ==
    [given |-> {"title", "content", "category"}, title |-> title, content |-> content,
     category |-> category, status |-> "", is_featured |-> FALSE, is_trending |-> FALSE,
     featured_order |-> NULL, trending_order |-> NULL, posts |-> <<>>, type |-> ""]

Field(b, name, default) == IF name \in b.given THEN b[name] ELSE default

CreateBodies ==
    { Body(Title_AB, Content_dirty, "news"),
      [Body(Title_punct, Content_clean, "tips") EXCEPT
          !.given = @ \cup {"status", "is_featured", "featured_order"},
          !.status = "published", !.is_featured = TRUE, !.featured_order = Some(1)],
      [Body(<<>>, Content_clean, "news") EXCEPT !.given = @ \ {"title"}] }

UpdateBodies ==
    { [Body(Title_ab, Content_dirty, "tips") EXCEPT
          !.given = @ \cup {"status"}, !.status = "published"],
      Body(Title_punct, Content_clean, "news"),
      [Body(Title_AB, <<>>, "news") EXCEPT !.given = @ \cup {"status"}, !.status = "draft"] }

SetStatusBodies ==
    { [Body(<<>>, <<>>, "") EXCEPT
          !.given = {"is_featured", "is_trending", "featured_order", "trending_order"},
          !.is_featured = TRUE, !.is_trending = FALSE,
          !.featured_order = Some(1), !.trending_order = NULL] }

ReorderBodies ==
    { [Body(<<>>, <<>>, "") EXCEPT
          !.given = {"posts", "type"}, !.type = "featured",
          !.posts = <<[id |-> IdSeg(2), order |-> Some(1)], [id |-> IdSeg(1), order |-> Some(1)]>>] }

Request(method, path, admin, body) ==
    [method |-> method, path |-> path, admin |-> admin, body |-> body]

EmptyBody == [Body(<<>>, <<>>, "") EXCEPT !.given = {}]

\* the requests of the admin
AdminWrites ==
    {Request("POST", <<S_posts>>, TRUE, b) : b \in CreateBodies}
    \cup {Request("PUT", <<S_posts, id>>, TRUE, b) : id \in Ids, b \in UpdateBodies}
    \cup {Request("DELETE", <<S_posts, id>>, TRUE, EmptyBody) : id \in Ids}
    \cup {Request("PATCH", <<S_posts, id, S_status>>, TRUE, b) : id \in Ids, b \in SetStatusBodies}
    \cup {Request("POST", <<S_posts, S_reorder>>, TRUE, b) : b \in ReorderBodies}

\* the same routes asked for without the passphrase
OtherWrites ==
    { Request("POST", <<S_posts>>, FALSE, EmptyBody),
      Request("PUT", <<S_posts, IdSeg(1)>>, FALSE, EmptyBody),
      Request("DELETE", <<S_posts, IdSeg(1)>>, FALSE, EmptyBody),
      Request("PATCH", <<S_posts, IdSeg(1), S_status>>, FALSE, EmptyBody),
      Request("POST", <<S_posts, S_reorder>>, FALSE, EmptyBody) }

WriteRequests == AdminWrites \cup OtherWrites

ReadPaths ==
    { <<S_posts>>, <<S_categories>>, <<S_posts, S_ab>>,
      <<S_posts, S_featured>>, <<S_posts, S_trending>> }

ReadRequests == {Request("GET", path, a, EmptyBody) : path \in ReadPaths, a \in BOOLEAN}

Requests == WriteRequests \cup ReadRequests

\* the requests the router hands to the handler h
Dispatched(h) == {r \in Requests : Handler(r) = h}
CreateRequests == Dispatched("createPost")
UpdateRequests == Dispatched("updatePost")
DeleteRequests == Dispatched("deletePost")
SetStatusRequests == Dispatched("setStatus")
ReorderRequests == Dispatched("reorder")
ListPostsRequests == Dispatched("listPosts")
GetPostRequests == Dispatched("getPost")
ListCategoriesRequests == Dispatched("listCategories")

\* the contents the bodies carry, each with what sanitizeContent returns for it
BodyContents == {b.content : b \in CreateBodies \cup UpdateBodies}
\* a mutant: the content is stored as it came
sanitizedContentOf_raw == [content \in BodyContents |-> content]

sanitizedContentOf == [content \in BodyContents |-> sanitizeContent(content)]

\* checkAdminPassphrase, blog.js:66-68: the caller's header was compared when the
\* request was drawn
checkAdminPassphrase(r) == r.admin

Ev(h, r, status, error, cause, nq) ==
    [NoEvent EXCEPT !.handler = h, !.admin = r.admin, !.path = r.path,
                    !.status = status, !.error = error, !.cause = cause, !.nq = nq]

InFlight(h, pc, r, slug, nq, i) ==
    [op |-> h, pc |-> pc, r |-> r, slug |-> slug, nq |-> nq, i |-> i]

\* a request is taken up by the first slot that handles none
Accepts(p) == req[p] = Idle /\ \A q \in Procs : q < p => req[q] # Idle

\* const connection = await pool.getConnection(), e.g. blog.js:76
getConnection(h) == h + 1

\* a mutant: the connection is not given back
release_never(h) == h

\* connection.release(), e.g. blog.js:139
release(h) == h - 1

\* the connections held once the handler in slot p, which starts in this step if
\* the slot is idle, has acquired its connection
Acquired(p) == IF req[p] = Idle THEN getConnection(held) ELSE held

\* the handler answers before it asks for a connection: return res.status(403)
Refuse(p, ev) ==
    /\ event' = ev
    /\ req' = [req EXCEPT ![p] = Idle]
    /\ held' = held

\* the handler answers and returns; finally { connection.release() }
Reply(p, ev) ==
    /\ event' = ev
    /\ req' = [req EXCEPT ![p] = Idle]
    /\ held' = release(Acquired(p))

\* the handler awaits its next query
Await(p, state) ==
    /\ event' = NoEvent
    /\ req' = [req EXCEPT ![p] = state]
    /\ held' = Acquired(p)

NOW == clock

\* the uniqueness of blog_posts.slug that the table definition (db/init.js) is
\* required to provide: a write giving row id the slug is refused when another
\* row has it
UniqueSlugViolated_none(rows, id, slug) == FALSE

UniqueSlugViolated(rows, id, slug) ==
    \E other \in DOMAIN rows : other # id /\ rows[other].slug = slug

Reserved == Cardinality({q \in Procs : req[q].op = "createPost"})

\* a mutant: the duplicate query of update does not leave out the post itself
SlugOwners_ownToo(rows, slug, except) == {id \in DOMAIN rows : rows[id].slug = slug}

\* SELECT id FROM blog_posts WHERE slug = ? [AND id != ?], blog.js:103-106, 225-228
SlugOwners(rows, slug, except) ==
    {id \in DOMAIN rows : rows[id].slug = slug /\ id \notin except}

\* !title || !content || !category, blog.js:94, 204
MissingRequired(b) ==
    \/ Field(b, "title", <<>>) = <<>>
    \/ Field(b, "content", <<>>) = <<>>
    \/ Field(b, "category", "") = ""

\* router.post('/posts'), blog.js:71-110: up to the answer of the slug query
CreatePost(p, r) ==
    /\ Accepts(p)
    /\ Handler(r) = "createPost"
    /\ UNCHANGED <<posts, nextId, clock, pureVars>>
    /\ IF ~checkAdminPassphrase(r)
       THEN Refuse(p, Ev("createPost", r, 403, "Unauthorized", "", 0))
       ELSE IF MissingRequired(r.body)
       THEN Reply(p, Ev("createPost", r, 400, "ValidationError", "", 0))
       ELSE LET slug == slugify(r.body.title)
                existingSlugs == SlugOwners(posts, slug, {})
            IN  IF existingSlugs # {}
                THEN Reply(p, Ev("createPost", r, 400, "DuplicateSlug", "", 1))
                ELSE /\ nextId + Reserved < MaxIds
                     /\ Await(p, InFlight("createPost", "insert", r, slug, 1, 0))

\* router.post('/posts'), blog.js:112-141: sanitize, INSERT, answer
CreatePost_Insert(p) ==
    /\ req[p].op = "createPost"
    /\ req[p].pc = "insert"
    /\ LET r == req[p].r
           b == r.body
           sanitizedContent == sanitizedContentOf[b.content]
           id == uuidv4
           row == [id |-> id, title |-> b.title, slug |-> req[p].slug,
                   content |-> sanitizedContent, raw |-> b.content,
                   category |-> b.category, status |-> Field(b, "status", "draft"),
                   is_featured |-> Field(b, "is_featured", FALSE),
                   is_trending |-> Field(b, "is_trending", FALSE),
                   featured_order |-> Field(b, "featured_order", NULL),
                   trending_order |-> Field(b, "trending_order", NULL),
                   created_at |-> NOW, updated_at |-> NOW]
       IN  IF UniqueSlugViolated(posts, id, req[p].slug)
           THEN /\ Reply(p, Ev("createPost", r, 500, "StorageError", "duplicate key", 2))
                /\ UNCHANGED <<posts, nextId>>
           ELSE /\ posts' = (id :> row) @@ posts
                /\ nextId' = nextId + 1
                /\ Reply(p, [Ev("createPost", r, 200, "", "", 2) EXCEPT
                                !.id = id, !.slug = req[p].slug])
    /\ UNCHANGED <<clock, pureVars>>

\* router.put('/posts/:id'), blog.js:185-216: up to the answer of the existence query
UpdatePost(p, r) ==
    /\ Accepts(p)
    /\ Handler(r) = "updatePost"
    /\ UNCHANGED <<posts, nextId, clock, pureVars>>
    /\ IF ~checkAdminPassphrase(r)
       THEN Refuse(p, Ev("updatePost", r, 403, "Unauthorized", "", 0))
       ELSE IF MissingRequired(r.body)
       THEN Reply(p, Ev("updatePost", r, 400, "ValidationError", "", 0))
       ELSE IF r.path[2] \notin DOMAIN posts
       THEN Reply(p, Ev("updatePost", r, 404, "NotFound", "", 1))
       ELSE Await(p, InFlight("updatePost", "checkSlug", r, <<>>, 1, 0))

\* router.put('/posts/:id'), blog.js:218-232: the slug and the duplicate query
UpdatePost_CheckSlug(p) ==
    /\ req[p].op = "updatePost"
    /\ req[p].pc = "checkSlug"
    /\ UNCHANGED <<posts, nextId, clock, pureVars>>
    /\ LET r == req[p].r
           slug == slugify(r.body.title)
           existingSlugs == SlugOwners(posts, slug, {r.path[2]})
       IN  IF existingSlugs # {}
           THEN Reply(p, Ev("updatePost", r, 400, "DuplicateSlug", "", 2))
           ELSE Await(p, InFlight("updatePost", "write", r, slug, 2, 0))

\* router.put('/posts/:id'), blog.js:234-268: sanitize, UPDATE, answer
UpdatePost_Write(p) ==
    /\ req[p].op = "updatePost"
    /\ req[p].pc = "write"
    /\ LET r == req[p].r
           b == r.body
           id == r.path[2]
           sanitizedContent == sanitizedContentOf[b.content]
       IN  IF id \in DOMAIN posts /\ UniqueSlugViolated(posts, id, req[p].slug)
           THEN /\ Reply(p, Ev("updatePost", r, 500, "StorageError", "duplicate key", 3))
                /\ UNCHANGED posts
           ELSE /\ posts' = IF id \in DOMAIN posts
                            THEN [posts EXCEPT ![id] =
                                     [@ EXCEPT !.title = b.title, !.slug = req[p].slug,
                                               !.content = sanitizedContent,
                                               !.raw = b.content,
                                               !.category = b.category,
                                               !.status = Field(b, "status", "NULL"),
                                               !.updated_at = NOW]]
                            ELSE posts
                /\ Reply(p, [Ev("updatePost", r, 200, "", "", 3) EXCEPT
                                !.slug = req[p].slug])
    /\ UNCHANGED <<nextId, clock, pureVars>>

\* rows without the row id
Without(rows, id) == [k \in DOMAIN rows \ {id} |-> rows[k]]

\* router.delete('/posts/:id'), blog.js:271-286: up to the answer of the existence query
DeletePost(p, r) ==
    /\ Accepts(p)
    /\ Handler(r) = "deletePost"
    /\ UNCHANGED <<posts, nextId, clock, pureVars>>
    /\ IF ~checkAdminPassphrase(r)
       THEN Refuse(p, Ev("deletePost", r, 403, "Unauthorized", "", 0))
       ELSE IF r.path[2] \notin DOMAIN posts
       THEN Reply(p, Ev("deletePost", r, 404, "NotFound", "", 1))
       ELSE Await(p, InFlight("deletePost", "delete", r, <<>>, 1, 0))

\* router.delete('/posts/:id'), blog.js:288-300: DELETE, answer
DeletePost_Delete(p) ==
    /\ req[p].op = "deletePost"
    /\ req[p].pc = "delete"
    /\ posts' = Without(posts, req[p].r.path[2])
    /\ Reply(p, Ev("deletePost", req[p].r, 200, "", "", 2))
    /\ UNCHANGED <<nextId, clock, pureVars>>

\* a mutant: the statement does not write featured_order
setFlags_keepOrder(row, b) ==
    [row EXCEPT !.is_featured = b.is_featured, !.is_trending = b.is_trending,
                !.trending_order = b.trending_order]

\* SET is_featured = ?, is_trending = ?, featured_order = ?, trending_order = ?,
\* blog.js:330-335
setFlags(row, b) ==
    [row EXCEPT !.is_featured = b.is_featured, !.is_trending = b.is_trending,
                !.featured_order = b.featured_order, !.trending_order = b.trending_order]

\* router.patch('/posts/:id/status'), blog.js:321-344: one UPDATE of the four fields
SetStatus(p, r) ==
    /\ Accepts(p)
    /\ Handler(r) = "setStatus"
    /\ UNCHANGED <<nextId, clock, pureVars>>
    /\ IF ~checkAdminPassphrase(r)
       THEN /\ Refuse(p, Ev("setStatus", r, 403, "Unauthorized", "", 0))
            /\ UNCHANGED posts
       ELSE LET id == r.path[2]
                b == r.body
            IN  /\ posts' = IF id \in DOMAIN posts
                            THEN [posts EXCEPT ![id] = setFlags(@, b)]
                            ELSE posts
                /\ Reply(p, [Ev("setStatus", r, 200, "", "", 1) EXCEPT !.id = id])

\* a mutant: the order field of the other kind is chosen
orderField_swapped(type) == IF type = "trending" THEN "featured_order" ELSE "trending_order"

\* const orderField = type === 'trending' ? 'trending_order' : 'featured_order', blog.js:355
orderField(type) == IF type = "trending" THEN "trending_order" ELSE "featured_order"

\* router.post('/posts/reorder'), blog.js:347-355: up to the first UPDATE of the loop
Reorder(p, r) ==
    /\ Accepts(p)
    /\ Handler(r) = "reorder"
    /\ UNCHANGED <<posts, nextId, clock, pureVars>>
    /\ IF ~checkAdminPassphrase(r)
       THEN Refuse(p, Ev("reorder", r, 403, "Unauthorized", "", 0))
       ELSE IF r.body.posts = <<>>
       THEN Reply(p, Ev("reorder", r, 200, "", "", 0))
       ELSE Await(p, InFlight("reorder", "loop", r, <<>>, 0, 1))

\* router.post('/posts/reorder'), blog.js:357-371: the UPDATE for one entry of the list
Reorder_Step(p) ==
    /\ req[p].op = "reorder"
    /\ req[p].pc = "loop"
    /\ UNCHANGED <<nextId, clock, pureVars>>
    /\ LET r == req[p].r
           i == req[p].i
           post == r.body.posts[i]
           field == orderField(r.body.type)
       IN  /\ posts' = IF post.id \in DOMAIN posts
                       THEN [posts EXCEPT ![post.id] = [@ EXCEPT ![field] = post.order]]
                       ELSE posts
           /\ IF i < Len(r.body.posts)
              THEN Await(p, InFlight("reorder", "loop", r, <<>>, i, i + 1))
              ELSE Reply(p, Ev("reorder", r, 200, "", "", i))

\* the rows of S in an order the database may return for ORDER BY created_at DESC
Perms(S) ==
    {f \in [1..Cardinality(S) -> S] : \A i, j \in 1..Cardinality(S) : i # j => f[i] # f[j]}

OrderByCreatedAtDesc(S) ==
    {f \in Perms(S) :
        \A i, j \in 1..Cardinality(S) : i < j => f[i].created_at >= f[j].created_at}

\* a mutant: the listing does not filter on the status
Visible_all(rows, admin) == {rows[id] : id \in DOMAIN rows}

\* WHERE status = 'published' unless the caller is the admin, blog.js:149, 167, 308
Visible(rows, admin) ==
    {rows[id] : id \in {k \in DOMAIN rows : admin \/ rows[k].status = "published"}}

\* router.get('/posts'), blog.js:144-159
ListPosts(p, r) ==
    /\ Accepts(p)
    /\ Handler(r) = "listPosts"
    /\ \E rows \in OrderByCreatedAtDesc(Visible(posts, checkAdminPassphrase(r))) :
          Reply(p, [Ev("listPosts", r, 200, "", "", 1) EXCEPT !.rows = rows])
    /\ UNCHANGED <<posts, nextId, clock, pureVars>>

\* router.get('/posts/:slug'), blog.js:162-182
GetPost(p, r) ==
    /\ Accepts(p)
    /\ Handler(r) = "getPost"
    /\ LET found == {row \in Visible(posts, checkAdminPassphrase(r)) : row.slug = r.path[2]}
       IN  IF found = {}
           THEN Reply(p, Ev("getPost", r, 404, "NotFound", "", 1))
           ELSE \E row \in found :
                   Reply(p, [Ev("getPost", r, 200, "", "", 1) EXCEPT !.rows = <<row>>])
    /\ UNCHANGED <<posts, nextId, clock, pureVars>>

CategoryOrder == <<"news", "tips">>

\* router.get('/categories'), blog.js:303-318: SELECT DISTINCT category ... ORDER BY category
ListCategories(p, r) ==
    /\ Accepts(p)
    /\ Handler(r) = "listCategories"
    /\ LET cats == {row.category : row \in Visible(posts, checkAdminPassphrase(r))}
       IN  Reply(p, [Ev("listCategories", r, 200, "", "", 1) EXCEPT
                        !.rows = SelectSeq(CategoryOrder, LAMBDA c : c \in cats)])
    /\ UNCHANGED <<posts, nextId, clock, pureVars>>

\* an awaited connection.query rejects: catch (error) { res.status(500) }, e.g.
\* blog.js:135-137, 262-264, 366-368
QueryFails(p) ==
    /\ req[p].pc # "idle"
    /\ Reply(p, Ev(req[p].op, req[p].r, 500, "StorageError", "query error", req[p].nq + 1))
    /\ UNCHANGED <<posts, nextId, clock, pureVars>>

Init ==
    /\ WorkflowAtRest
    /\ url = S_empty
    /\ verdict = "none"
    /\ san = SanIdle
    /\ listing = ListIdle
    /\ slugged = SlugIdle

Next ==
    \E p \in Procs :
          \/ \E r \in CreateRequests : CreatePost(p, r)
          \/ CreatePost_Insert(p)
          \/ \E r \in UpdateRequests : UpdatePost(p, r)
          \/ UpdatePost_CheckSlug(p)
          \/ UpdatePost_Write(p)
          \/ \E r \in DeleteRequests : DeletePost(p, r)
          \/ DeletePost_Delete(p)
          \/ \E r \in SetStatusRequests : SetStatus(p, r)
          \/ \E r \in ReorderRequests : Reorder(p, r)
          \/ Reorder_Step(p)
          \/ \E r \in ListPostsRequests : ListPosts(p, r)
          \/ \E r \in GetPostRequests : GetPost(p, r)
          \/ \E r \in ListCategoriesRequests : ListCategories(p, r)
          \/ QueryFails(p)

Spec == Init /\ [][Next]_vars

TypeOK ==
    /\ DOMAIN posts \subseteq Ids
    /\ nextId \in 0..MaxIds
    /\ \A p \in Procs : req[p].op \in {"idle", "createPost", "updatePost", "deletePost", "reorder"}


\* C1: in every reachable state of the post store, whatever the interleaving of
\* the steps of create, update, setStatus, reorder and delete requests, no two
\* distinct posts have the same slug.
C1_SlugsUnique ==
    \A a, b \in DOMAIN posts : a # b => posts[a].slug # posts[b].slug

\* two posts are stored and a write has just been refused for its slug
C1_Witness_WriteRefused ==
    /\ Cardinality(DOMAIN posts) = 2
    /\ event.cause = "duplicate key"

\* C2: of two concurrent creates with the same slug the one that does not succeed
\* is answered with the DuplicateSlug client error: a create that the store
\* refuses for its slug is never answered with a generic storage failure.
C2_LoserGetsDuplicateSlug ==
    (event.handler = "createPost" /\ event.cause = "duplicate key")
        => (event.status = 400 /\ event.error = "DuplicateSlug")

\* C3: a read answered to a caller who does not pass the admin check (post list,
\* lookup by slug, also of /posts/featured and /posts/trending, category list)
\* contains no draft post and no category that only draft posts have.
C3_ReadersSeeNoDraft ==
    (event.handler \in {"listPosts", "getPost", "listCategories"} /\ ~event.admin) =>
        IF event.handler = "listCategories"
        THEN \A i \in DOMAIN event.rows :
                \E id \in DOMAIN posts :
                    posts[id].category = event.rows[i] /\ posts[id].status # "draft"
        ELSE \A i \in DOMAIN event.rows : event.rows[i].status # "draft"

\* a reader's post list that shows one post while the store holds a draft too
C3_Witness_DraftHidden ==
    /\ event.handler = "listPosts"
    /\ ~event.admin
    /\ Len(event.rows) = 1
    /\ \E id \in DOMAIN posts : posts[id].status = "draft"

\* C4: the content of every stored post is what sanitizeContent returns for the
\* content the last create or update of the post was given; no path stores the
\* caller's content as it came.
C4_StoredContentSanitized ==
    \A id \in DOMAIN posts : posts[id].content = sanitizeContent(posts[id].raw)

\* an update has just stored a content that the sanitizer changed
C4_Witness_UpdateSanitized ==
    /\ event.handler = "updatePost"
    /\ event.status = 200
    /\ \E id \in DOMAIN posts :
          /\ <<S_posts, id>> = event.path
          /\ posts[id].raw = Content_dirty
          /\ posts[id].content # Content_dirty

\* C8: no stored post has an empty slug (a title that slugifies to the empty
\* string is refused before anything is stored).
C8_NoEmptySlugStored ==
    \A id \in DOMAIN posts : posts[id].slug # <<>>

\* C9: when update's duplicate query runs while another post owns the slug of the
\* new title, the answer is DuplicateSlug and every post stays as it was; when no
\* other post owns it the update goes on to its write, and a write whose slug is
\* the post's own current slug succeeds and stores the new fields.
C9_UpdateSlugConflict ==
    [][\A p \in Procs :
          LET r == req[p].r
              id == r.path[2]
              slug == slugify(r.body.title)
              answered == req'[p] = Idle /\ event'.cause # "query error"
          IN  /\ (req[p].op = "updatePost" /\ req[p].pc = "checkSlug" /\ req'[p] # req[p]
                    /\ event'.cause # "query error") =>
                  IF \E other \in DOMAIN posts : other # id /\ posts[other].slug = slug
                  THEN /\ req'[p] = Idle
                       /\ event'.status = 400
                       /\ event'.error = "DuplicateSlug"
                       /\ posts' = posts
                  ELSE /\ req'[p].pc = "write"
                       /\ posts' = posts
              /\ (req[p].op = "updatePost" /\ req[p].pc = "write" /\ answered
                    /\ id \in DOMAIN posts /\ posts[id].slug = slug) =>
                  /\ event'.status = 200
                  /\ posts'[id].title = r.body.title
                  /\ posts'[id].slug = slug
                  /\ posts'[id].content = sanitizeContent(r.body.content)
                  /\ posts'[id].category = r.body.category
                  /\ \A other \in DOMAIN posts \ {id} : posts'[other] = posts[other]
      ]_vars

\* an update has just been refused because the other post owns the slug
C9_Witness_DuplicateRefused ==
    /\ event.handler = "updatePost"
    /\ event.error = "DuplicateSlug"
    /\ Cardinality(DOMAIN posts) = 2


(***************************************************************************)
(* The featured and trending listings, blog.js:374-407                     *)
(***************************************************************************)
MaxRows == 3
MaxOrder == 2
MaxStamp == 1

Orders == {NULL} \cup {Some(n) : n \in 1..MaxOrder}

\* ORDER BY <order> ASC, created_at DESC as MySQL evaluates it: in ascending
\* order NULL comes before every value
OrderedBefore(a, b, orderBy) ==
    IF a[orderBy] # b[orderBy]
    THEN \/ a[orderBy] = NULL
         \/ b[orderBy] # NULL /\ a[orderBy][1] < b[orderBy][1]
    ELSE a.created_at > b.created_at

\* SELECT * FROM blog_posts WHERE <flag> = true ORDER BY <order> ASC, created_at DESC:
\* the orders in which the database may return the rows
listFlagged(rows, flagField, orderBy) ==
    LET hits == {rows[id] : id \in {k \in DOMAIN rows : rows[k][flagField]}}
    IN  {f \in Perms(hits) :
            \A i, j \in 1..Cardinality(hits) : i < j => ~OrderedBefore(f[j], f[i], orderBy)}

\* the query of router.get('/posts/featured'), blog.js:377-381
listFeatured(rows) == listFlagged(rows, "is_featured", "featured_order")

\* the query of router.get('/posts/trending'), blog.js:395-399
listTrending(rows) == listFlagged(rows, "is_trending", "trending_order")

ListRow(id, kind, flag, order, stamp) ==
    [id |-> IdSeg(id), created_at |-> stamp,
     is_featured |-> kind = "featured" /\ flag, is_trending |-> kind = "trending" /\ flag,
     featured_order |-> IF kind = "featured" THEN order ELSE NULL,
     trending_order |-> IF kind = "trending" THEN order ELSE NULL]

InitList ==
    /\ WorkflowAtRest
    /\ url = S_empty
    /\ verdict = "none"
    /\ san = SanIdle
    /\ slugged = SlugIdle
    /\ \E kind \in {"featured", "trending"},
          flag \in [1..MaxRows -> BOOLEAN],
          order \in [1..MaxRows -> Orders],
          stamp \in [1..MaxRows -> 0..MaxStamp] :
          listing = [phase |-> "table", kind |-> kind, out |-> <<>>,
                     rows |-> [id \in 1..MaxRows |->
                                  ListRow(id, kind, flag[id], order[id], stamp[id])]]

\* the handler of router.get('/posts/featured'), blog.js:374-389
ListFeatured ==
    /\ listing.phase = "table"
    /\ listing.kind = "featured"
    /\ \E out \in listFeatured(listing.rows) :
          listing' = [listing EXCEPT !.phase = "listed", !.out = out]
    /\ UNCHANGED <<wfVars, url, verdict, san, slugged>>

\* the handler of router.get('/posts/trending'), blog.js:392-407
ListTrending ==
    /\ listing.phase = "table"
    /\ listing.kind = "trending"
    /\ \E out \in listTrending(listing.rows) :
          listing' = [listing EXCEPT !.phase = "listed", !.out = out]
    /\ UNCHANGED <<wfVars, url, verdict, san, slugged>>

NextList == ListFeatured \/ ListTrending

SpecList == InitList /\ [][NextList]_vars

\* the flag and the order of a row in the listing asked for
ListedFlag(row) == IF listing.kind = "featured" THEN row.is_featured ELSE row.is_trending
ListedOrder(row) == IF listing.kind = "featured" THEN row.featured_order ELSE row.trending_order

\* the documented order: by the order integer ascending, every null order after
\* every order that is set, then by created_at descending
DocumentedBefore(a, b) ==
    IF ListedOrder(a) # ListedOrder(b)
    THEN \/ ListedOrder(b) = NULL
         \/ ListedOrder(a) # NULL /\ ListedOrder(a)[1] < ListedOrder(b)[1]
    ELSE a.created_at > b.created_at

\* the listing returns exactly the rows that have the flag
C11_ExactlyFlagged ==
    listing.phase = "listed" =>
        /\ {listing.out[i] : i \in DOMAIN listing.out}
              = {listing.rows[id] : id \in {k \in DOMAIN listing.rows : ListedFlag(listing.rows[k])}}
        /\ \A i, j \in DOMAIN listing.out : i # j => listing.out[i] # listing.out[j]

\* C11: the featured (trending) listing returns exactly the rows with the flag,
\* ordered by the order integer ascending with every null order after every order
\* that is set, rows of equal or null order by created_at descending.
C11_ListingOrder ==
    /\ C11_ExactlyFlagged
    /\ listing.phase = "listed" =>
          \A i, j \in DOMAIN listing.out :
              i < j => ~DocumentedBefore(listing.out[j], listing.out[i])


(***************************************************************************)
(* The write routes while the database clock advances                      *)
(***************************************************************************)
MaxClock == 2

\* time passes between two steps
Tick ==
    /\ clock < MaxClock
    /\ clock' = clock + 1
    /\ event' = NoEvent
    /\ UNCHANGED <<posts, req, nextId, held, pureVars>>

\* the admin's writes with a title that is not only punctuation
TimedRequests == {r \in AdminWrites : r.body.title # Title_punct}

NextTime ==
    \/ Tick
    \/ \E p \in Procs :
          \/ \E r \in TimedRequests \cap CreateRequests : CreatePost(p, r)
          \/ CreatePost_Insert(p)
          \/ \E r \in TimedRequests \cap UpdateRequests : UpdatePost(p, r)
          \/ UpdatePost_CheckSlug(p)
          \/ UpdatePost_Write(p)
          \/ \E r \in TimedRequests \cap DeleteRequests : DeletePost(p, r)
          \/ DeletePost_Delete(p)
          \/ \E r \in TimedRequests \cap SetStatusRequests : SetStatus(p, r)
          \/ \E r \in TimedRequests \cap ReorderRequests : Reorder(p, r)
          \/ Reorder_Step(p)

SpecTime == Init /\ [][NextTime]_vars

\* no step changes the created_at of a post that stays stored
C12_CreatedAtFixed ==
    [][\A id \in DOMAIN posts \cap DOMAIN posts' :
          posts'[id].created_at = posts[id].created_at]_vars

\* C12: every step that changes a stored post (update, setStatus, reorder) sets
\* its updated_at to the time of the change and leaves its created_at as it was.
C12_ChangeRefreshesUpdatedAt ==
    [][\A id \in DOMAIN posts \cap DOMAIN posts' :
          posts'[id] # posts[id] =>
              /\ posts'[id].updated_at = clock
              /\ posts'[id].created_at = posts[id].created_at]_vars


(***************************************************************************)
(* Reorder batches over two stored posts                                   *)
(***************************************************************************)
\* reorder requests of both kinds, each entry with an order of its own
ReorderJobs ==
    {Request("POST", <<S_posts, S_reorder>>, TRUE,
             [Body(<<>>, <<>>, "") EXCEPT
                 !.given = {"posts", "type"}, !.type = type,
                 !.posts = <<[id |-> IdSeg(2), order |-> Some(2)],
                             [id |-> IdSeg(1), order |-> Some(1)]>>]) :
        type \in {"featured", "trending"}}

NextReorder ==
    \E p \in Procs :
        \/ \E r \in CreateRequests : CreatePost(p, r)
        \/ CreatePost_Insert(p)
        \/ \E r \in ReorderJobs : Reorder(p, r)
        \/ Reorder_Step(p)
        \/ QueryFails(p)

SpecReorder == Init /\ [][NextReorder]_vars

\* C13: reorder applies its entries one at a time in list order and writes only
\* the order field of its kind. A write that succeeds changes that one field of
\* that one post and moves on to the next entry; a write that fails changes
\* nothing, ends the request with a generic failure and leaves the entries
\* before it applied and the entries after it unapplied.
C13_ReorderStepwise ==
    [][\A p \in Procs :
          (req[p].op = "reorder" /\ req'[p] # req[p]) =>
              LET r == req[p].r
                  i == req[p].i
                  entry == r.body.posts[i]
                  selected == IF r.body.type = "trending" THEN "trending_order"
                                                           ELSE "featured_order"
              IN  IF event'.cause = "query error"
                  THEN /\ posts' = posts
                       /\ req'[p] = Idle
                       /\ event'.handler = "reorder"
                       /\ event'.status = 500
                       /\ event'.error = "StorageError"
                  ELSE /\ DOMAIN posts' = DOMAIN posts
                       /\ \A id \in DOMAIN posts :
                             posts'[id] = IF id = entry.id
                                          THEN [posts[id] EXCEPT ![selected] = entry.order]
                                          ELSE posts[id]
                       /\ IF i < Len(r.body.posts)
                          THEN req'[p].op = "reorder" /\ req'[p].i = i + 1
                          ELSE req'[p] = Idle /\ event'.status = 200
      ]_vars

\* the second write of a featured batch has just failed: the first entry is
\* applied, the second is not, and no trending order was written
C13_Witness_PartialBatch ==
    /\ event.handler = "reorder"
    /\ event.status = 500
    /\ event.nq = 2
    /\ DOMAIN posts = {IdSeg(1), IdSeg(2)}
    /\ posts[IdSeg(2)].featured_order = Some(2)
    /\ posts[IdSeg(1)].featured_order # Some(1)
    /\ \A id \in DOMAIN posts : posts[id].trending_order = NULL


(***************************************************************************)
(* The slug of a title, blog.js:98-101 and 219-222                         *)
(***************************************************************************)
MaxTitleLen == 4

TitleChars == {"A", "b", "7", " ", "-", "!"}
Titles == UNION {[1..n -> TitleChars] : n \in 0..MaxTitleLen}

InitSlug ==
    /\ WorkflowAtRest
    /\ url = S_empty
    /\ verdict = "none"
    /\ san = SanIdle
    /\ listing = ListIdle
    /\ \E title \in Titles :
          slugged = [phase |-> "title", title |-> title, out |-> <<>>, out2 |-> <<>>]

\* const slug = title.toLowerCase().replace(...).replace(...), blog.js:98-101
Slugify ==
    /\ slugged.phase = "title"
    /\ slugged' = [slugged EXCEPT !.phase = "slug", !.out = slugify(slugged.title)]
    /\ UNCHANGED <<wfVars, url, verdict, san, listing>>

\* the slug of a title that is itself a slug, as in an update titled with a slug
Reslugify ==
    /\ slugged.phase = "slug"
    /\ slugged' = [slugged EXCEPT !.phase = "again", !.out2 = slugify(slugged.out)]
    /\ UNCHANGED <<wfVars, url, verdict, san, listing>>

NextSlug == Slugify \/ Reslugify

SpecSlug == InitSlug /\ [][NextSlug]_vars

\* the words of s, its maximal runs of characters of [a-z0-9], joined by hyphens
RECURSIVE JoinWords(_)
JoinWords(s) ==
    LET from == IndexOfChar(s, 1, SlugChar)
    IN  IF from > Len(s) THEN <<>>
        ELSE LET ends == {k \in from..Len(s) : s[k] \notin SlugChar}
                 to == IF ends = {} THEN Len(s)
                       ELSE (CHOOSE k \in ends : \A j \in ends : k <= j) - 1
                 rest == JoinWords(SubSeq(s, to + 1, Len(s)))
             IN  SubSeq(s, from, to) \o (IF rest = <<>> THEN <<>> ELSE <<"-">> \o rest)

\* C14: the slug of a title is the words of the lower-cased title joined by single
\* hyphens: it holds only characters of [a-z0-9-], neither starts nor ends with a
\* hyphen, has no two hyphens in a row, and slugifying it again returns it unchanged.
C14_SlugShape ==
    /\ slugged.phase \in {"slug", "again"} =>
          LET s == slugged.out
          IN  /\ s = JoinWords(toLowerCase(slugged.title))
              /\ \A k \in 1..Len(s) : s[k] \in SlugChar \cup {"-"}
              /\ s # <<>> => (s[1] # "-" /\ s[Len(s)] # "-")
              /\ \A k \in 1..Len(s) - 1 : ~(s[k] = "-" /\ s[k + 1] = "-")
    /\ slugged.phase = "again" => slugged.out2 = slugged.out

\* a title with a leading run, an upper-case letter and an inner run, slugified twice
C14_Witness_RunsCollapsed ==
    /\ slugged.phase = "again"
    /\ slugged.title = <<"!", "A", " ", "b">>
    /\ slugged.out = S_ab


\* a post that a create has just stored has the status draft or published
C15_CreatedStatusSet ==
    (event.handler = "createPost" /\ event.status = 200) =>
        posts[event.id].status \in {"draft", "published"}

\* C15: the status of every stored post is draft or published; in particular an
\* update that gives no status does not leave the post with a null status.
C15_StatusDraftOrPublished ==
    \A id \in DOMAIN posts : posts[id].status \in {"draft", "published"}


\* C16: a status change that is answered with success overwrites is_featured,
\* is_trending, featured_order and trending_order of its post with the values of
\* the request and changes nothing else: not the post's title, slug, content or
\* status, and no other post. The order values are not compared with those of
\* other posts.
C16_SetFlagsFrame ==
    [][(event'.handler = "setStatus" /\ event'.status = 200) =>
          \E b \in SetStatusBodies :
              /\ DOMAIN posts' = DOMAIN posts
              /\ \A id \in DOMAIN posts :
                    posts'[id] =
                        IF id = event'.id
                        THEN [posts[id] EXCEPT !.is_featured = b.is_featured,
                                               !.is_trending = b.is_trending,
                                               !.featured_order = b.featured_order,
                                               !.trending_order = b.trending_order]
                        ELSE posts[id]
      ]_vars

\* a status change has just given a second post the featured order 1
C16_Witness_SameOrderTwice ==
    /\ event.handler = "setStatus"
    /\ event.status = 200
    /\ Cardinality(DOMAIN posts) = 2
    /\ \A id \in DOMAIN posts : posts[id].featured_order = Some(1)
    /\ \E id \in DOMAIN posts : posts[id].status = "draft"


\* C17: an update that is answered with success has written its post: the post
\* with the id of the request is stored and holds the slug and the title the
\* update computed, whatever other requests ran between its queries.
C17_UpdateSuccessWritten ==
    (event.handler = "updatePost" /\ event.status = 200) =>
        /\ event.path[2] \in DOMAIN posts
        /\ posts[event.path[2]].slug = event.slug

\* a delete that is answered NotFound found no post with its id
C17_DeleteNotFoundAbsent ==
    (event.handler = "deletePost" /\ event.status = 404) => event.path[2] \notin DOMAIN posts


\* C18: the connections held are exactly those of the requests in flight: every
\* handler that acquired a connection gives it back once, on whatever path the
\* request ends, and none is held when no request is in flight.
C18_ConnectionsReleased ==
    held = Cardinality({p \in Procs : req[p] # Idle})

\* a request has just ended in a thrown query error while another one is still
\* in flight with its connection
C18_Witness_ReleasedAfterError ==
    /\ event.status = 500
    /\ event.cause = "query error"
    /\ held = 1


(***************************************************************************)
(* Posts named after the listing routes                                    *)
(***************************************************************************)
\* the admin creates a published post titled featured and a draft titled trending
RouteCreates ==
    { Request("POST", <<S_posts>>, TRUE,
              [Body(S_featured, Content_clean, "news") EXCEPT
                  !.given = @ \cup {"status", "is_featured"},
                  !.status = "published", !.is_featured = TRUE]),
      Request("POST", <<S_posts>>, TRUE, Body(S_trending, Content_clean, "tips")) }

ListingPaths == {<<S_posts, S_featured>>, <<S_posts, S_trending>>}

NextRoute ==
    \E p \in Procs :
        \/ \E r \in RouteCreates : CreatePost(p, r)
        \/ CreatePost_Insert(p)
        \/ \E r \in GetPostRequests : GetPost(p, r)
        \/ \E r \in DeleteRequests : DeletePost(p, r)
        \/ DeletePost_Delete(p)

SpecRoute == Init /\ [][NextRoute]_vars

\* C19: a GET for /posts/featured or /posts/trending goes to the slug lookup,
\* the first registered route that matches it: the answer is the post the
\* caller may see whose slug is that word, or 404 when there is none, and no
\* response ever comes from the featured or the trending listing.
C19_SlugRouteShadowsListings ==
    /\ \A r \in ReadRequests : r.path \in ListingPaths => Handler(r) = "getPost"
    /\ event.handler \notin {"listFeatured", "listTrending"}
    /\ event.path \in ListingPaths =>
          LET found == {row \in Visible(posts, event.admin) : row.slug = event.path[2]}
          IN  /\ event.handler = "getPost"
              /\ IF found = {}
                 THEN event.status = 404 /\ event.rows = <<>>
                 ELSE event.status = 200 /\ Len(event.rows) = 1 /\ event.rows[1] \in found

\* GET /posts/featured has just been answered with the one post whose slug is
\* featured, a post that is flagged featured
C19_Witness_FeaturedBySlug ==
    /\ event.path = <<S_posts, S_featured>>
    /\ event.status = 200
    /\ event.rows[1].slug = S_featured
    /\ event.rows[1].is_featured

\* GET /posts/trending is answered 404 while a draft with that slug is stored
C19_Witness_TrendingNotFound ==
    /\ event.path = <<S_posts, S_trending>>
    /\ event.status = 404
    /\ \E id \in DOMAIN posts : posts[id].slug = S_trending

====
